---- MODULE Spec2Model ----
(***************************************************************************)
(* A model of the conflict model's sample-matrix assembly (copro/data.py), *)
(* splitting and scaling (copro/machine_learning.py), set-up               *)
(* (copro/pipeline.py), per-polygon evaluation (conflict_model/            *)
(* evaluation.py) and the command-line run (scripts/runner.py).            *)
(*                                                                         *)
(* Each entry point of the code has its own specification over the same    *)
(* variables; the variables of the other entry points stay idle in it.     *)
(***************************************************************************)
EXTENDS Integers, Sequences, FiniteSets, TLC

VARIABLES
    \* ---- data.fill_XY and the stores it fills (copro/data.py)
    cfg_data,       \* the option names of the 'data' section, in file order
    time_dtype,     \* per configured variable: dtype of its nc-file's time axis
    n_poly,         \* len(polygon_gdf)
    y_start,        \* config 'settings'/'y_start'
    y_end,          \* config 'settings'/'y_end'
    proj,           \* fill_XY's argument proj
    proj_year,      \* fill_XY's argument proj_year (0 models None)
    XY,             \* the dictionary of columns, an insertion-ordered dict
    sim_i,          \* number of iterations of the year loop entered so far
    fill_pc,        \* position in initiate_*/fill_XY
    fill_err,       \* the exception that ended fill_XY, "none" if none
    matrix,         \* the array fill_XY returned
    odd_key,        \* the column whose collaborator miscounts ("none" if none)
    odd_delta,      \* by how many values its list differs from len(polygon_gdf)
    \* ---- data.split_XY_data (copro/data.py)
    XY_in,          \* split_XY_data's argument XY: a sequence of rows of cells
    verbose,        \* config 'general'/'verbose'
    X,              \* the X-array split_XY_data returned
    Y,              \* the Y-array split_XY_data returned
    sxy_pc,         \* position in split_XY_data
    sxy_err,        \* the exception that ended split_XY_data, "none" if none
    \* ---- machine_learning.split_scale_train_test_split
    train_fraction, \* config 'machine_learning'/'train_fraction', in tenths
    scaler_fit,     \* what the scaler learned in fit (per column), or "unfitted"
    ind_train,      \* the row indices train_test_split drew for the train part
    ind_test,       \* the row indices train_test_split drew for the test part
    X_train, X_test, y_train, y_test,
    X_train_geom, X_test_geom, X_train_ID, X_test_ID,
    ml_pc,          \* position in split_scale_train_test_split
    ml_err,         \* the exception that ended it, "none" if none
    n_samples,      \* train_test_split: the number of rows of its arrays
    size_train,     \* train_test_split: the size of the train part
    size_test,      \* train_test_split: the size of the test part
    size_pc,        \* position in train_test_split's computation of the sizes
    geom_fault,     \* the sequence split_conflict_geom_data returns one short
    \* ---- evaluation.get_average_hit
    df,             \* the test rows of all runs: <<ID, overall_hit>>
    global_df,      \* the polygons' table: <<ID, geometry>>
    df_hit,         \* the table get_average_hit returned
    ev_pc,          \* position in get_average_hit
    \* ---- data.neighboring_polys, data.find_neighbors
    extent_gdf,     \* the polygon collection: [watprovID, geometry]
    neighboring_matrix, \* the dataframe neighboring_polys returned
    watprovID,      \* find_neighbors' argument
    actual_neighbours,  \* the array find_neighbors returned
    nb_pc,          \* position in neighboring_polys / find_neighbors
    \* ---- scripts/runner.py: main
    cfg_scaler,     \* config 'machine_learning'/'scaler'
    cfg_model,      \* config 'machine_learning'/'model'
    n_runs,         \* config 'settings'/'n_runs'
    pre_calc_XY,    \* config 'pre_calc'/'XY'
    files_read,     \* the input files read so far, in order
    calls,          \* the functions main has called so far, in order
    scaler,         \* main's variable scaler ("None" before prepare_ML)
    clf,            \* main's variable clf ("None" before prepare_ML)
    run_n,          \* iterations of the n_runs loop started so far
    fitted_in,      \* per instance of prepare_ML: the runs that fitted it
    run_pc,         \* position in main
    run_err,        \* the exception that ended main, "none" if none
    \* ---- pipeline.create_XY, pipeline.create_X (copro/pipeline.py)
    cr_fn,          \* the function called: "create_XY" or "create_X"
    cfg_pre_XY,     \* config 'pre_calc'/'XY'
    cfg_pre_X,      \* config 'pre_calc'/'X'
    disk_files,     \* the npy-files that exist under root_dir
    disk_matrix,    \* the matrix an existing npy-file holds
    saved,          \* the npy-files np.save has written to out_dir
    loaded,         \* the name np.load was given ("none" if not called)
    cr_branch,      \* the branch taken: "assemble" or "load" ("none" before)
    cr_X,           \* the X-array returned
    cr_Y,           \* the Y-array returned (create_XY)
    cr_pc,          \* position in create_XY / create_X
    cr_err          \* the exception that ended it, "none" if none

fillVars == <<cfg_data, time_dtype, n_poly, y_start, y_end, proj, proj_year,
              XY, sim_i, fill_pc, fill_err, matrix, odd_key, odd_delta>>

splitVars == <<XY_in, verbose, X, Y, sxy_pc, sxy_err>>

mlVars == <<train_fraction, scaler_fit, ind_train, ind_test,
            X_train, X_test, y_train, y_test,
            X_train_geom, X_test_geom, X_train_ID, X_test_ID, ml_pc, ml_err,
            n_samples, size_train, size_test, size_pc, geom_fault>>

evalVars == <<df, global_df, df_hit, ev_pc>>

neighVars == <<extent_gdf, neighboring_matrix, watprovID, actual_neighbours, nb_pc>>

createVars == <<cr_fn, cfg_pre_XY, cfg_pre_X, disk_files, disk_matrix, saved,
                loaded, cr_branch, cr_X, cr_Y, cr_pc, cr_err>>

runVars == <<cfg_scaler, cfg_model, n_runs, pre_calc_XY, files_read, calls,
             scaler, clf, run_n, fitted_in, run_pc, run_err, createVars>>

vars == <<fillVars, splitVars, mlVars, evalVars, neighVars, runVars>>

---------------------------------------------------------------------------
(* Bounds of the model.                                                    *)

MaxVars == 2        \* most options in the 'data' section
MaxPoly == 2        \* most polygons in polygon_gdf
MaxYears == 3       \* most years in the model period
FirstYear == 2000   \* the y_start the runs use
MaxLayoutVars == 1  \* most options in the 'data' section of a stored matrix
MaxRows == 2        \* most rows of a stored sample matrix
MaxSamples == 3     \* most rows of the X and Y given to the splitter
MaxTestRows == 3    \* most test rows handed to get_average_hit
MaxPolygons == 3    \* most polygons of a collection whose neighbours are sought
MaxRuns == 2        \* largest n_runs
MaxCount == 100     \* most rows whose train and test sizes are computed

\* Option names a 'data' section may hold.  "conflict" is a legal option name
\* like any other.
VarNames == {"prec", "temp", "conflict"}

\* dtypes an nc-file's time axis may have.
TimeDtypes == {"float64", "datetime64[ns]", "int64"}

\* Sequences of distinct elements of S, of length at most n.
DistinctSeqs(S, n) ==
    {s \in UNION {[1..m -> S] : m \in 0..n} :
        \A i, j \in 1..Len(s) : i # j => s[i] # s[j]}

---------------------------------------------------------------------------
(* The variables of an entry point while another one runs.                 *)

IdleFillState ==
    /\ time_dtype = <<>>
    /\ n_poly = 1
    /\ y_start = FirstYear
    /\ y_end = FirstYear
    /\ proj = FALSE
    /\ proj_year = 0
    /\ XY = <<>>
    /\ sim_i = 0
    /\ fill_pc = "idle"
    /\ fill_err = "none"
    /\ matrix = <<>>
    /\ odd_key = "none"
    /\ odd_delta = 0

IdleFill == cfg_data = <<>> /\ IdleFillState

IdleSplit ==
    /\ XY_in = <<>>
    /\ verbose = FALSE
    /\ X = <<>>
    /\ Y = <<>>
    /\ sxy_pc = "idle"
    /\ sxy_err = "none"

IdleSizes ==
    /\ n_samples = 0
    /\ size_train = 0
    /\ size_test = 0
    /\ size_pc = "idle"

IdleML ==
    /\ train_fraction = 5
    /\ scaler_fit = "unfitted"
    /\ ind_train = <<>>
    /\ ind_test = <<>>
    /\ X_train = <<>>
    /\ X_test = <<>>
    /\ y_train = <<>>
    /\ y_test = <<>>
    /\ X_train_geom = <<>>
    /\ X_test_geom = <<>>
    /\ X_train_ID = <<>>
    /\ X_test_ID = <<>>
    /\ ml_pc = "idle"
    /\ ml_err = "none"
    /\ geom_fault = "none"
    /\ IdleSizes

IdleEval ==
    /\ df = <<>>
    /\ global_df = <<>>
    /\ df_hit = <<>>
    /\ ev_pc = "idle"

IdleNeigh ==
    /\ extent_gdf = <<>>
    /\ neighboring_matrix = <<>>
    /\ watprovID = "None"
    /\ actual_neighbours = <<>>
    /\ nb_pc = "idle"

IdleCreate ==
    /\ cr_fn = "none"
    /\ cfg_pre_XY = ""
    /\ cfg_pre_X = ""
    /\ disk_files = {}
    /\ disk_matrix = <<>>
    /\ saved = {}
    /\ loaded = "none"
    /\ cr_branch = "none"
    /\ cr_X = <<>>
    /\ cr_Y = <<>>
    /\ cr_pc = "idle"
    /\ cr_err = "none"

IdleMain ==
    /\ cfg_scaler = "MinMaxScaler"
    /\ cfg_model = "NuSVC"
    /\ n_runs = 0
    /\ pre_calc_XY = ""
    /\ files_read = <<>>
    /\ calls = <<>>
    /\ scaler = "None"
    /\ clf = "None"
    /\ run_n = 0
    /\ fitted_in = [scaler |-> {}, clf |-> {}]
    /\ run_pc = "idle"
    /\ run_err = "none"

IdleRun == IdleMain /\ IdleCreate

---------------------------------------------------------------------------
(* Python's insertion-ordered dict, as a sequence of <<key, value>> pairs. *)

Keys(d) == [i \in 1..Len(d) |-> d[i][1]]

HasKey(d, k) == \E i \in 1..Len(d) : d[i][1] = k

\* d[k] = v: a new key goes to the end, an existing key keeps its place.
DictSet(d, k, v) ==
    IF HasKey(d, k)
    THEN [i \in 1..Len(d) |-> IF d[i][1] = k THEN <<k, v>> ELSE d[i]]
    ELSE Append(d, <<k, v>>)

DictGet(d, k) == d[CHOOSE i \in 1..Len(d) : d[i][1] = k][2]

---------------------------------------------------------------------------
(* copro/data.py: initiate_XY_data, initiate_X_data                        *)

\* for key in config.items('data'): XY[str(key[0])] = pd.Series(dtype=float)
RECURSIVE AddDataKeys(_, _, _)
AddDataKeys(d, keys, i) ==
    IF i > Len(keys) THEN d
    ELSE AddDataKeys(DictSet(d, keys[i], <<>>), keys, i + 1)

initiate_X_data(keys) ==
    LET d1 == DictSet(<<>>, "poly_ID", <<>>)
        d2 == DictSet(d1, "poly_geometry", <<>>)
        d3 == AddDataKeys(d2, keys, 1)
        d4 == DictSet(d3, "conflict_t_min_1", <<>>)
    IN  DictSet(d4, "conflict_t_min_1_nb", <<>>)

initiate_XY_data(keys) ==
    LET d1 == DictSet(<<>>, "poly_ID", <<>>)
        d2 == DictSet(d1, "poly_geometry", <<>>)
        d3 == AddDataKeys(d2, keys, 1)
        d4 == DictSet(d3, "conflict_t_min_1", <<>>)
        d5 == DictSet(d4, "conflict_t_min_1_nb", <<>>)
    IN  DictSet(d5, "conflict", <<>>)

---------------------------------------------------------------------------
(* copro/data.py: fill_XY, fill_XY_ref, fill_XY_proj                       *)

NaN == <<>>

\* The columns whose collaborator may miscount, and by how much.
OddKeys == {"none", "poly_geometry", "conflict_t_min_1"}
OddDeltas == {-1, 1}

\* What the collaborators of copro.conflict and copro.variables return for a
\* column and a year: one value per polygon, in polygon order; the collaborator
\* of odd_key returns odd_delta values more.  A value is written
\* <<collaborator, year, polygon>>, fn being the function that was called.
data_list(key, year, fn) ==
    [p \in 1..(n_poly + (IF key = odd_key THEN odd_delta ELSE 0)) |-> <<fn, year, p>>]

\* data_series.append(pd.Series(data_list), ignore_index=True); XY[key] = ...
AppendColumn(xy, key, year, fn) ==
    DictSet(xy, key, DictGet(xy, key) \o data_list(key, year, fn))

\* The collaborator that fills poly_ID or poly_geometry.
PolyReader(key) == IF key = "poly_ID" THEN "get_poly_ID" ELSE "get_poly_geometry"

\* The option of the 'data' section a key names: its place in cfg_data, 0 if
\* the section has no such option.
DataOption(key) ==
    IF \E i \in 1..Len(cfg_data) : cfg_data[i] = key
    THEN CHOOSE i \in 1..Len(cfg_data) : cfg_data[i] = key
    ELSE 0

\* The else-branch of the key dispatch: a configured variable's nc-file.
\* config.get('data', key) raises NoOptionError for a key the section lacks;
\* the final else formats its message with nc_fo, a name that is not defined.
VariableKey(xy, key, year) ==
    IF DataOption(key) = 0
    THEN [XY |-> xy, err |-> "NoOptionError"]
    ELSE IF time_dtype[DataOption(key)] \in {"float32", "float64"}
    THEN [XY |-> AppendColumn(xy, key, year, "nc_with_float_timestamp"), err |-> "none"]
    ELSE IF time_dtype[DataOption(key)] = "datetime64[ns]"
    THEN [XY |-> AppendColumn(xy, key, year, "nc_with_continous_datetime_timestamp"),
          err |-> "none"]
    ELSE [XY |-> xy, err |-> "NameError: name 'nc_fo' is not defined"]

\* One key of fill_XY_ref's loop over XY.items().  The three conflict
\* branches pass conflict_gdf, which is neither a parameter (the parameter is
\* conflict_data) nor a global of the module: evaluating the call's arguments
\* raises NameError before anything is appended.
RefKey(xy, key, year) ==
    IF key \in {"conflict", "conflict_t_min_1", "conflict_t_min_1_nb"}
    THEN [XY |-> xy, err |-> "NameError: name 'conflict_gdf' is not defined"]
    ELSE IF key \in {"poly_ID", "poly_geometry"}
    THEN [XY |-> AppendColumn(xy, key, year, PolyReader(key)), err |-> "none"]
    ELSE VariableKey(xy, key, year)

\* A fill_XY_proj that takes the lags from the conflicts of the previous year
ProjKey_previous_year(xy, key, year) ==
    IF key = "conflict_t_min_1"
    THEN [XY |-> AppendColumn(xy, key, year, "conflict_in_previous_year"), err |-> "none"]
    ELSE IF key = "conflict_t_min_1_nb"
    THEN [XY |-> AppendColumn(xy, key, year, "conflict_in_previous_year(check_neighbors)"),
          err |-> "none"]
    ELSE IF key \in {"poly_ID", "poly_geometry"}
    THEN [XY |-> AppendColumn(xy, key, year, PolyReader(key)), err |-> "none"]
    ELSE VariableKey(xy, key, year)

\* One key of fill_XY_proj's loop: conflict_data is the parameter here, and
\* the lags are read from the projected conflicts.
ProjKey(xy, key, year) ==
    IF key = "conflict_t_min_1"
    THEN [XY |-> AppendColumn(xy, key, year, "read_projected_conflict"), err |-> "none"]
    ELSE IF key = "conflict_t_min_1_nb"
    THEN [XY |-> AppendColumn(xy, key, year, "read_projected_conflict(check_neighbors)"),
          err |-> "none"]
    ELSE IF key \in {"poly_ID", "poly_geometry"}
    THEN [XY |-> AppendColumn(xy, key, year, PolyReader(key)), err |-> "none"]
    ELSE VariableKey(xy, key, year)

\* for key, value in XY.items(): the keys in dict order, from the k-th on,
\* until one raises.
RECURSIVE RefKeys(_, _, _)
RefKeys(xy, k, year) ==
    IF k > Len(xy) THEN [XY |-> xy, err |-> "none"]
    ELSE LET r == RefKey(xy, xy[k][1], year)
         IN  IF r.err # "none" THEN r ELSE RefKeys(r.XY, k + 1, year)

RECURSIVE ProjKeys(_, _, _)
ProjKeys(xy, k, year) ==
    IF k > Len(xy) THEN [XY |-> xy, err |-> "none"]
    ELSE LET r == ProjKey(xy, xy[k][1], year)
         IN  IF r.err # "none" THEN r ELSE ProjKeys(r.XY, k + 1, year)

\* len(model_period), model_period = np.arange(y_start, y_end + 1, 1)
NYears == y_end + 1 - y_start

\* pd.DataFrame.from_dict(XY).to_numpy(): one row per index of the longest
\* column, the shorter columns filled with NaN.
RECURSIVE MaxLen(_, _)
MaxLen(d, k) ==
    IF k > Len(d) THEN 0
    ELSE LET rest == MaxLen(d, k + 1)
         IN  IF Len(d[k][2]) > rest THEN Len(d[k][2]) ELSE rest

to_numpy(d) ==
    [r \in 1..MaxLen(d, 1) |->
        [c \in 1..Len(d) |-> IF r <= Len(d[c][2]) THEN d[c][2][r] ELSE NaN]]

---------------------------------------------------------------------------
(* Actions of the assembly.                                                *)

FillFrame == UNCHANGED <<cfg_data, time_dtype, n_poly, y_start, y_end, proj, proj_year,
                         odd_key, odd_delta>>

\* XY = data.initiate_XY_data(config)
InitiateXY ==
    /\ fill_pc = "start"
    /\ XY' = initiate_XY_data(cfg_data)
    /\ fill_pc' = "initiated"
    /\ UNCHANGED <<sim_i, fill_err, matrix>>
    /\ FillFrame
    /\ UNCHANGED <<splitVars, mlVars, evalVars, neighVars, runVars>>

\* X = data.initiate_X_data(config)
InitiateX ==
    /\ fill_pc = "start"
    /\ XY' = initiate_X_data(cfg_data)
    /\ fill_pc' = "initiated"
    /\ UNCHANGED <<sim_i, fill_err, matrix>>
    /\ FillFrame
    /\ UNCHANGED <<splitVars, mlVars, evalVars, neighVars, runVars>>

\* fill_XY up to the dispatch on proj.
FillXYEnter ==
    /\ fill_pc = "initiated"
    /\ IF proj = FALSE
       THEN fill_pc' = "ref" /\ fill_err' = fill_err
       ELSE IF proj_year = 0
       THEN fill_pc' = "raised" /\ fill_err' = "ValueError"
       ELSE fill_pc' = "proj" /\ fill_err' = fill_err
    /\ UNCHANGED <<XY, sim_i, matrix>>
    /\ FillFrame
    /\ UNCHANGED <<splitVars, mlVars, evalVars, neighVars, runVars>>

\* One iteration of fill_XY_ref's loop over zip(model_period, range(...)).
FillRefYear ==
    /\ fill_pc = "ref"
    /\ sim_i < NYears
    /\ LET r == IF sim_i = 0
                THEN [XY |-> XY, err |-> "none"]
                ELSE RefKeys(XY, 1, y_start + sim_i)
       IN  /\ XY' = r.XY
           /\ sim_i' = sim_i + 1
           /\ fill_err' = r.err
           /\ fill_pc' = IF r.err = "none" THEN "ref" ELSE "raised"
    /\ UNCHANGED matrix
    /\ FillFrame
    /\ UNCHANGED <<splitVars, mlVars, evalVars, neighVars, runVars>>

\* fill_XY_proj: the single step for the projection year.
FillProj ==
    /\ fill_pc = "proj"
    /\ LET r == ProjKeys(XY, 1, proj_year)
       IN  /\ XY' = r.XY
           /\ fill_err' = r.err
           /\ fill_pc' = IF r.err = "none" THEN "filled" ELSE "raised"
    /\ UNCHANGED <<sim_i, matrix>>
    /\ FillFrame
    /\ UNCHANGED <<splitVars, mlVars, evalVars, neighVars, runVars>>

\* return pd.DataFrame.from_dict(XY).to_numpy()
FillXYReturn ==
    /\ \/ fill_pc = "ref" /\ sim_i = NYears
       \/ fill_pc = "filled"
    /\ matrix' = to_numpy(XY)
    /\ fill_pc' = "returned"
    /\ UNCHANGED <<XY, sim_i, fill_err>>
    /\ FillFrame
    /\ UNCHANGED <<splitVars, mlVars, evalVars, neighVars, runVars>>

InitFill ==
    /\ cfg_data \in DistinctSeqs(VarNames, MaxVars)
    /\ time_dtype \in [1..Len(cfg_data) -> TimeDtypes]
    /\ n_poly \in 1..MaxPoly
    /\ y_start = FirstYear
    /\ y_end \in FirstYear..(FirstYear + MaxYears - 1)
    /\ proj \in BOOLEAN
    /\ proj_year \in IF proj THEN {0, FirstYear + MaxYears} ELSE {0}
    /\ XY = <<>>
    /\ sim_i = 0
    /\ fill_pc = "start"
    /\ fill_err = "none"
    /\ matrix = <<>>
    /\ odd_key \in OddKeys
    /\ odd_delta \in IF odd_key = "none" THEN {0} ELSE OddDeltas
    /\ IdleSplit /\ IdleML /\ IdleEval /\ IdleNeigh /\ IdleRun

NextFill ==
    \/ InitiateXY
    \/ InitiateX
    \/ FillXYEnter
    \/ FillRefYear
    \/ FillProj
    \/ FillXYReturn

SpecFill == InitFill /\ [][NextFill]_vars

---------------------------------------------------------------------------
(* copro/data.py: split_XY_data                                            *)

\* The columns of a sample matrix assembled in reference mode: the keys of the
\* store initiate_XY_data makes, in dict order (DataFrame.from_dict keeps it).
Columns == Keys(initiate_XY_data(cfg_data))

\* The cell a column holds when it is not missing.  The label and the lagged
\* conflict are booleans, the neighbour lag and the variables are floats.
Cell(key, label) ==
    IF key = "conflict" THEN label
    ELSE IF key = "poly_ID" THEN "P1"
    ELSE IF key = "poly_geometry" THEN "POLYGON"
    ELSE IF key = "conflict_t_min_1" THEN "False"
    ELSE "0.5"

\* The places a stored row may miss a cell: nowhere (0), the identifier, the
\* column after the geometry (the first variable, if any), the last column.
MissPlaces == {0, 1, 3, Len(Columns)}

\* A row of a stored matrix: at most one missing cell, and the value of the
\* label.
RowKinds == [miss : MissPlaces, label : {"True", "False"}]

StoredRow(kind) ==
    [c \in 1..Len(Columns) |->
        IF c = kind.miss THEN "NaN" ELSE Cell(Columns[c], kind.label)]

StoredMatrices ==
    {[r \in 1..Len(kinds) |-> StoredRow(kinds[r])] :
        kinds \in UNION {[1..m -> RowKinds] : m \in 0..MaxRows}}

\* pd.isna of a cell
IsMissing(cell) == cell = "NaN"

\* dropna(how='all'): only the rows that are missing throughout are dropped
dropna_how_all(rows) ==
    SelectSeq(rows, LAMBDA row : \E c \in 1..Len(row) : ~IsMissing(row[c]))

\* XY.dropna(): the rows without a missing cell, in order
dropna(rows) ==
    SelectSeq(rows, LAMBDA row : \A c \in 1..Len(row) : ~IsMissing(row[c]))

\* Y.astype(int) of one cell: a boolean becomes 0 or 1, a float is truncated
astype_int(cell) ==
    IF cell \in {"True", "1.0"} THEN 1 ELSE 0

\* X = XY[:, :-1]
AllButLast(rows) == [r \in 1..Len(rows) |-> SubSeq(rows[r], 1, Len(rows[r]) - 1)]

\* Y = XY[:, -1]; Y = Y.astype(int)
LastAsInt(rows) == [r \in 1..Len(rows) |-> astype_int(rows[r][Len(rows[r])])]

\* split_XY_data(XY, config).  In verbose mode the share of conflicts is
\* printed as 100*len(...)/len(Y), which divides by zero when no row is left.
SplitXYData ==
    /\ sxy_pc = "start"
    /\ LET kept == dropna(XY_in)
       IN  IF verbose /\ Len(kept) = 0
           THEN /\ sxy_pc' = "raised"
                /\ sxy_err' = "ZeroDivisionError"
                /\ UNCHANGED <<X, Y>>
           ELSE /\ X' = AllButLast(kept)
                /\ Y' = LastAsInt(kept)
                /\ sxy_pc' = "returned"
                /\ UNCHANGED sxy_err
    /\ UNCHANGED <<XY_in, verbose>>
    /\ UNCHANGED <<fillVars, mlVars, evalVars, neighVars, runVars>>

InitSplit ==
    /\ cfg_data \in DistinctSeqs(VarNames, MaxLayoutVars)
    /\ IdleFillState
    /\ XY_in \in StoredMatrices
    /\ verbose \in BOOLEAN
    /\ X = <<>>
    /\ Y = <<>>
    /\ sxy_pc = "start"
    /\ sxy_err = "none"
    /\ IdleML /\ IdleEval /\ IdleNeigh /\ IdleRun

NextSplit == SplitXYData

SpecSplit == InitSplit /\ [][NextSplit]_vars

---------------------------------------------------------------------------
(* copro/machine_learning.py: split_scale_train_test_split                 *)

\* The samples the splitter is given: a row of X (identifier, geometry, one
\* variable value) with its label in Y.
Samples == {<<<<"P1", "G1", 1>>, 0>>, <<<<"P1", "G1", 3>>, 1>>,
            <<<<"P2", "G2", 1>>, 1>>, <<<<"P2", "G2", 3>>, 0>>}

\* The train fractions of the configuration, in tenths.
TrainFractions == {5, 7}

\* conflict.split_conflict_geom_data(X): the identifier column, the geometry
\* column and the remaining columns of an array.
split_conflict_geom_data(A) ==
    [ID   |-> [r \in 1..Len(A) |-> A[r][1]],
     geom |-> [r \in 1..Len(A) |-> A[r][2]],
     data |-> [r \in 1..Len(A) |-> SubSeq(A[r], 3, Len(A[r]))]]

\* The sequences a faulty split_conflict_geom_data may return one short.
GeomFaults == {"none", "train_ID", "train_geom", "test_ID", "test_geom"}

ButLast(s) == SubSeq(s, 1, Len(s) - 1)

\* conflict.split_conflict_geom_data on a partition ("train" or "test"): as
\* above, but for the sequence that geom_fault names, which lacks its last
\* element.
split_partition(A, part) ==
    LET cols == split_conflict_geom_data(A)
    IN  [ID   |-> IF geom_fault = part \o "_ID" THEN ButLast(cols.ID) ELSE cols.ID,
         geom |-> IF geom_fault = part \o "_geom" THEN ButLast(cols.geom) ELSE cols.geom,
         data |-> cols.data]

RECURSIVE ColMin(_, _, _)
ColMin(data, c, r) ==
    IF r = Len(data) THEN data[r][c]
    ELSE LET rest == ColMin(data, c, r + 1)
         IN  IF data[r][c] < rest THEN data[r][c] ELSE rest

RECURSIVE ColMax(_, _, _)
ColMax(data, c, r) ==
    IF r = Len(data) THEN data[r][c]
    ELSE LET rest == ColMax(data, c, r + 1)
         IN  IF data[r][c] > rest THEN data[r][c] ELSE rest

\* scaler.fit(data) of a MinMaxScaler: per column data_min_ and data_max_.
\* The other scalers of define_scaling are fitted column by column alike.
scaler_fit_on(data) ==
    [c \in 1..Len(data[1]) |->
        [data_min |-> ColMin(data, c, 1), data_max |-> ColMax(data, c, 1)]]

\* scaler.transform(data): (x - data_min_) / (data_max_ - data_min_), a zero
\* range counting as 1; the result is written in thousandths.
scaler_transform(fit, data) ==
    [r \in 1..Len(data) |->
        [c \in 1..Len(data[r]) |->
            LET range == fit[c].data_max - fit[c].data_min
            IN  ((data[r][c] - fit[c].data_min) * 1000)
                    \div (IF range = 0 THEN 1 ELSE range)]]

\* np.column_stack((X_geom, X_ID, X_ft)): identifier and geometry swapped
column_stack_swapped(ID, geom, ft) ==
    [r \in 1..Len(ft) |-> <<geom[r], ID[r]>> \o ft[r]]

\* np.column_stack((X_ID, X_geom, X_ft))
column_stack(ID, geom, ft) ==
    [r \in 1..Len(ft) |-> <<ID[r], geom[r]>> \o ft[r]]

\* 1 - config.getfloat('machine_learning', 'train_fraction') in double
\* arithmetic: the tenths, and the sign of the rounding error (1 - 0.7 is
\* 0.30000000000000004, 1 - 0.8 is 0.19999999999999996, 1 - 0.9 is
\* 0.09999999999999998, the others are exact to the nearest double).
test_size(tf) ==
    [tenths |-> 10 - tf,
     err    |-> IF tf = 7 THEN 1 ELSE IF tf \in {8, 9} THEN -1 ELSE 0]

\* sklearn's n_test = ceil(test_size * n_samples)
n_test_of(ts, n) ==
    IF n = 0 THEN 0
    ELSE IF (ts.tenths * n) % 10 # 0
    THEN (ts.tenths * n) \div 10 + 1
    ELSE (ts.tenths * n) \div 10 + (IF ts.err > 0 THEN 1 ELSE 0)

RngPermutations(n) ==
    {f \in [1..n -> 1..n] : \A i, j \in 1..n : i # j => f[i] # f[j]}

\* The index arrays of model_selection.train_test_split for a permutation:
\* the first n_test indices are the test part, the others the train part.
test_indices(perm, n_test) == SubSeq(perm, 1, n_test)

\* A train part that starts one index early
train_indices_early(perm, n_test) == SubSeq(perm, n_test, Len(perm))

train_indices(perm, n_test) == SubSeq(perm, n_test + 1, Len(perm))

\* a[indices]
Take(a, indices) == [k \in 1..Len(indices) |-> a[indices[k]]]

Reversed(a) == [k \in 1..Len(a) |-> a[Len(a) + 1 - k]]

\* X and Y split by two calls, each with a permutation of its own
train_test_split_apart(X_cs, Y_in, perm, n_test) ==
    [X_train |-> Take(X_cs, train_indices(perm, n_test)),
     X_test  |-> Take(X_cs, test_indices(perm, n_test)),
     y_train |-> Take(Y_in, train_indices(Reversed(perm), n_test)),
     y_test  |-> Take(Y_in, test_indices(Reversed(perm), n_test))]

\* model_selection.train_test_split(X_cs, Y, test_size=...): both arrays are
\* indexed by the same train and the same test indices.
train_test_split(X_cs, Y_in, perm, n_test) ==
    [X_train |-> Take(X_cs, train_indices(perm, n_test)),
     X_test  |-> Take(X_cs, test_indices(perm, n_test)),
     y_train |-> Take(Y_in, train_indices(perm, n_test)),
     y_test  |-> Take(Y_in, test_indices(perm, n_test))]

MLFrame == UNCHANGED <<X, Y, train_fraction, XY_in, verbose, sxy_pc, sxy_err,
                       n_samples, size_train, size_test, size_pc, geom_fault>>

MLRaise(e) ==
    /\ ml_pc' = "raised"
    /\ ml_err' = e
    /\ UNCHANGED <<ind_train, ind_test, X_train, X_test, y_train, y_test,
                   X_train_geom, X_test_geom, X_train_ID, X_test_ID>>

\* split_scale_train_test_split(X, Y, config, scaler), with the permutation
\* train_test_split draws.
SplitScaleTrainTestSplit ==
    /\ ml_pc = "start"
    /\ \E perm \in RngPermutations(Len(X)) :
         LET cols == split_conflict_geom_data(X)
             n == Len(X)
             n_test == n_test_of(test_size(train_fraction), n)
         IN  IF n = 0
             THEN \* fit_transform refuses an array with no sample
                  scaler_fit' = scaler_fit /\ MLRaise("ValueError")
             ELSE
             LET fit == scaler_fit_on(cols.data)
                 X_ft == scaler_transform(fit, cols.data)
                 X_cs == column_stack(cols.ID, cols.geom, X_ft)
             IN  /\ scaler_fit' = fit
                 /\ IF n - n_test = 0
                    THEN \* the resulting train set would be empty
                         MLRaise("ValueError")
                    ELSE
                    LET i_test == test_indices(perm, n_test)
                        i_train == train_indices(perm, n_test)
                        parts == train_test_split(X_cs, Y, perm, n_test)
                        train == split_partition(parts.X_train, "train")
                        test == split_partition(parts.X_test, "test")
                    IN  IF Len(test.ID) # Len(test.data) \/ Len(test.geom) # Len(test.data)
                        THEN MLRaise("AssertionError")
                        ELSE /\ ind_train' = i_train
                             /\ ind_test' = i_test
                             /\ X_train' = train.data
                             /\ X_test' = test.data
                             /\ y_train' = parts.y_train
                             /\ y_test' = parts.y_test
                             /\ X_train_geom' = train.geom
                             /\ X_test_geom' = test.geom
                             /\ X_train_ID' = train.ID
                             /\ X_test_ID' = test.ID
                             /\ ml_pc' = "returned"
                             /\ ml_err' = ml_err
    /\ MLFrame
    /\ UNCHANGED <<fillVars, evalVars, neighVars, runVars>>

InitMLInputs ==
    /\ \E xy \in UNION {[1..n -> Samples] : n \in 0..MaxSamples} :
          /\ X = [r \in 1..Len(xy) |-> xy[r][1]]
          /\ Y = [r \in 1..Len(xy) |-> xy[r][2]]
    /\ train_fraction \in TrainFractions
    /\ scaler_fit = "unfitted"
    /\ ind_train = <<>>
    /\ ind_test = <<>>
    /\ X_train = <<>>
    /\ X_test = <<>>
    /\ y_train = <<>>
    /\ y_test = <<>>
    /\ X_train_geom = <<>>
    /\ X_test_geom = <<>>
    /\ X_train_ID = <<>>
    /\ X_test_ID = <<>>
    /\ ml_pc = "start"
    /\ ml_err = "none"
    /\ IdleSizes
    /\ XY_in = <<>>
    /\ verbose = FALSE
    /\ sxy_pc = "idle"
    /\ sxy_err = "none"
    /\ IdleFill /\ IdleEval /\ IdleNeigh /\ IdleRun

\* The splitter with a split_conflict_geom_data that returns what it should.
InitML == InitMLInputs /\ geom_fault = "none"

\* The splitter with a split_conflict_geom_data that may return a sequence of
\* the wrong length for a partition.
InitMLFault == InitMLInputs /\ geom_fault \in GeomFaults

NextML == SplitScaleTrainTestSplit

SpecML == InitML /\ [][NextML]_vars

SpecMLFault == InitMLFault /\ [][NextML]_vars

\* The train fractions whose sizes are computed, in tenths.
SizeFractions == 1..9

\* The sizes model_selection.train_test_split gives its two parts for arrays
\* of n_samples rows and test_size = 1 - train_fraction: n_test is the ceiling
\* of test_size * n_samples, n_train the rest; no rows or an empty train part
\* is a ValueError.
TrainTestSizes ==
    /\ size_pc = "start"
    /\ LET nt == n_test_of(test_size(train_fraction), n_samples)
       IN  IF n_samples = 0 \/ n_samples - nt = 0
           THEN /\ size_pc' = "raised"
                /\ UNCHANGED <<size_train, size_test>>
           ELSE /\ size_test' = nt
                /\ size_train' = n_samples - nt
                /\ size_pc' = "returned"
    /\ UNCHANGED <<n_samples, train_fraction, scaler_fit, ind_train, ind_test,
                   X_train, X_test, y_train, y_test, X_train_geom, X_test_geom,
                   X_train_ID, X_test_ID, ml_pc, ml_err, geom_fault>>
    /\ UNCHANGED <<fillVars, splitVars, evalVars, neighVars, runVars>>

InitSizes ==
    /\ n_samples \in 0..MaxCount
    /\ train_fraction \in SizeFractions
    /\ size_train = 0
    /\ size_test = 0
    /\ size_pc = "start"
    /\ scaler_fit = "unfitted"
    /\ ind_train = <<>>
    /\ ind_test = <<>>
    /\ X_train = <<>>
    /\ X_test = <<>>
    /\ y_train = <<>>
    /\ y_test = <<>>
    /\ X_train_geom = <<>>
    /\ X_test_geom = <<>>
    /\ X_train_ID = <<>>
    /\ X_test_ID = <<>>
    /\ ml_pc = "idle"
    /\ ml_err = "none"
    /\ geom_fault = "none"
    /\ IdleFill /\ IdleSplit /\ IdleEval /\ IdleNeigh /\ IdleRun

NextSizes == TrainTestSizes

SpecSizes == InitSizes /\ [][NextSizes]_vars

---------------------------------------------------------------------------
(* conflict_model/evaluation.py: get_average_hit                           *)

EvalIDs == {"P1", "P2"}

\* The identifiers of a frame's rows, each once, in order of first appearance.
RECURSIVE UniqueIDs(_, _)
UniqueIDs(rows, k) ==
    IF k = 0 THEN <<>>
    ELSE LET before == UniqueIDs(rows, k - 1)
         IN  IF \E i \in 1..Len(before) : before[i] = rows[k][1]
             THEN before
             ELSE Append(before, rows[k][1])

\* Number of rows of the frame with an identifier.
CountOf(rows, id) == Cardinality({k \in 1..Len(rows) : rows[k][1] = id})

\* Insertion of an identifier into a list kept in descending order of count;
\* equal counts keep their order of appearance.
RECURSIVE InsertByCount(_, _, _)
InsertByCount(sorted, id, rows) ==
    IF sorted = <<>> THEN <<id>>
    ELSE IF CountOf(rows, Head(sorted)) >= CountOf(rows, id)
    THEN <<Head(sorted)>> \o InsertByCount(Tail(sorted), id, rows)
    ELSE <<id>> \o sorted

RECURSIVE SortByCount(_, _, _)
SortByCount(ids, k, rows) ==
    IF k = 0 THEN <<>>
    ELSE InsertByCount(SortByCount(ids, k - 1, rows), ids[k], rows)

\* df.ID.value_counts(): <<ID, ID_count>>, the most frequent first
value_counts(rows) ==
    LET ids == SortByCount(UniqueIDs(rows, Len(rows)), Len(UniqueIDs(rows, Len(rows))), rows)
    IN  [i \in 1..Len(ids) |-> <<ids[i], CountOf(rows, ids[i])>>]

RECURSIVE SumHits(_, _, _)
SumHits(rows, id, k) ==
    IF k = 0 THEN 0
    ELSE SumHits(rows, id, k - 1) + (IF rows[k][1] = id THEN rows[k][2] ELSE 0)

\* groupby(df.ID).count() in the place of sum()
total_hits_counted(rows, id) == CountOf(rows, id)

\* df.overall_hit.groupby(df.ID).sum() for one identifier
total_hits(rows, id) == SumHits(rows, id, Len(rows))

RECURSIVE GCD(_, _)
GCD(a, b) == IF b = 0 THEN a ELSE GCD(b, a % b)

\* df_temp.total_hits / df_temp.ID_count: the quotient as a fraction in lowest
\* terms, <<numerator, denominator>>
Quotient(a, b) == <<a \div GCD(a, b), b \div GCD(a, b)>>

\* pd.merge(ID_count, hit_count, on='ID') with the average_hit column added
df_temp_of(rows) ==
    LET counts == value_counts(rows)
    IN  [i \in 1..Len(counts) |->
            [ID |-> counts[i][1],
             ID_count |-> counts[i][2],
             total_hits |-> total_hits(rows, counts[i][1]),
             average_hit |-> Quotient(total_hits(rows, counts[i][1]), counts[i][2])]]

\* The rows of global_df with an identifier, in order.
Matches(gdf, id) == SelectSeq(gdf, LAMBDA g : g[1] = id)

\* pd.merge(df_temp, global_df, on='ID', how='left'): every row of df_temp,
\* once per matching row of global_df, or once with a missing geometry
RECURSIVE merge_left(_, _, _)
merge_left(temp, gdf, i) ==
    IF i > Len(temp) THEN <<>>
    ELSE LET m == Matches(gdf, temp[i].ID)
             here == IF m = <<>>
                     THEN <<[ID |-> temp[i].ID, ID_count |-> temp[i].ID_count,
                             total_hits |-> temp[i].total_hits,
                             average_hit |-> temp[i].average_hit,
                             geometry |-> "NaN"]>>
                     ELSE [j \in 1..Len(m) |->
                             [ID |-> temp[i].ID, ID_count |-> temp[i].ID_count,
                              total_hits |-> temp[i].total_hits,
                              average_hit |-> temp[i].average_hit,
                              geometry |-> m[j][2]]]
         IN  here \o merge_left(temp, gdf, i + 1)

\* get_average_hit(df, global_df)
GetAverageHit ==
    /\ ev_pc = "start"
    /\ df_hit' = merge_left(df_temp_of(df), global_df, 1)
    /\ ev_pc' = "returned"
    /\ UNCHANGED <<df, global_df>>
    /\ UNCHANGED <<fillVars, splitVars, mlVars, neighVars, runVars>>

InitEval ==
    /\ df \in UNION {[1..n -> EvalIDs \X {0, 1}] : n \in 0..MaxTestRows}
    /\ \E ids \in DistinctSeqs(EvalIDs, Cardinality(EvalIDs)) :
          global_df = [i \in 1..Len(ids) |-> <<ids[i], IF ids[i] = "P1" THEN "G1" ELSE "G2">>]
    /\ df_hit = <<>>
    /\ ev_pc = "start"
    /\ IdleFill /\ IdleSplit /\ IdleML /\ IdleNeigh /\ IdleRun

NextEval == GetAverageHit

SpecEval == InitEval /\ [][NextEval]_vars

---------------------------------------------------------------------------
(* copro/data.py: neighboring_polys, find_neighbors                        *)

\* A polygon's geometry is an interval <<lo, hi>> of a line, lo < hi: two of
\* them touch when they share an end point and no inner point.
Coords == 0..3
Geometries == {<<lo, hi>> : lo \in Coords, hi \in Coords} \ {g \in Coords \X Coords : g[1] >= g[2]}

\* The identifier of the i-th polygon of a collection.
PolygonID(i) == <<"P1", "P2", "P3", "P4", "P5">>[i]

\* geometry.intersects(wp): the geometries share a point
geometry_intersects(g, wp) == g[1] <= wp[2] /\ wp[1] <= g[2]

\* extent_gdf.geometry.touches(wp) for one geometry of the collection
geometry_touches(g, wp) == g[2] = wp[1] \/ wp[2] = g[1]

\* neighboring_polys(config, extent_gdf): row i holds, for every polygon j,
\* whether j's geometry touches the geometry of polygon i; index and columns
\* are then labelled with the identifiers.
neighboring_polys(gdf) ==
    [index   |-> [i \in 1..Len(gdf) |-> gdf[i].watprovID],
     columns |-> [j \in 1..Len(gdf) |-> gdf[j].watprovID],
     values  |-> [i \in 1..Len(gdf) |->
                    [j \in 1..Len(gdf) |->
                        geometry_touches(gdf[j].geometry, gdf[i].geometry)]]]

\* find_neighbors(watprovID, neighboring_matrix): the row labelled watprovID,
\* transposed, and of it the labels of the entries that are True.
find_neighbors(id, m) ==
    LET i == CHOOSE i \in 1..Len(m.index) : m.index[i] = id
        hits == SelectSeq([j \in 1..Len(m.columns) |-> j], LAMBDA j : m.values[i][j] = TRUE)
    IN  [k \in 1..Len(hits) |-> m.columns[hits[k]]]

NeighboringPolys ==
    /\ nb_pc = "start"
    /\ neighboring_matrix' = neighboring_polys(extent_gdf)
    /\ nb_pc' = "built"
    /\ UNCHANGED <<extent_gdf, watprovID, actual_neighbours>>
    /\ UNCHANGED <<fillVars, splitVars, mlVars, evalVars, runVars>>

\* A call of find_neighbors for a polygon of the collection; what it returned
\* is kept per argument.
FindNeighbors ==
    /\ nb_pc = "built"
    /\ \E i \in 1..Len(extent_gdf) :
          /\ extent_gdf[i].watprovID \notin DOMAIN actual_neighbours
          /\ watprovID' = extent_gdf[i].watprovID
          /\ actual_neighbours' =
                [id \in DOMAIN actual_neighbours \cup {extent_gdf[i].watprovID} |->
                    IF id = extent_gdf[i].watprovID
                    THEN find_neighbors(id, neighboring_matrix)
                    ELSE actual_neighbours[id]]
    /\ UNCHANGED <<extent_gdf, neighboring_matrix, nb_pc>>
    /\ UNCHANGED <<fillVars, splitVars, mlVars, evalVars, runVars>>

InitNeigh ==
    /\ \E geoms \in UNION {[1..n -> Geometries] : n \in 1..MaxPolygons} :
          extent_gdf = [i \in 1..Len(geoms) |->
                          [watprovID |-> PolygonID(i), geometry |-> geoms[i]]]
    /\ neighboring_matrix = <<>>
    /\ watprovID = "None"
    /\ actual_neighbours = <<>>
    /\ nb_pc = "start"
    /\ IdleFill /\ IdleSplit /\ IdleML /\ IdleEval /\ IdleRun

NextNeigh ==
    \/ NeighboringPolys
    \/ FindNeighbors

SpecNeigh == InitNeigh /\ [][NextNeigh]_vars

---------------------------------------------------------------------------
(* copro/machine_learning.py: define_scaling, define_model;                *)
(* copro/pipeline.py: prepare_ML; scripts/runner.py: main                  *)

\* Values the configuration may give 'scaler' and 'model'.
ScalerNames == {"MinMaxScaler", "StandardScaler", "RobustScaler",
                "QuantileTransformer", "MaxAbsScaler"}
ModelNames == {"NuSVC", "KNeighborsClassifier", "RFClassifier",
               "RandomForestClassifier"}

\* define_scaling(config): the scaler instance, or ValueError
define_scaling(name) ==
    IF name = "MinMaxScaler" THEN [err |-> "none", value |-> "MinMaxScaler"]
    ELSE IF name = "StandardScaler" THEN [err |-> "none", value |-> "StandardScaler"]
    ELSE IF name = "RobustScaler" THEN [err |-> "none", value |-> "RobustScaler"]
    ELSE IF name = "QuantileTransformer" THEN [err |-> "none", value |-> "QuantileTransformer"]
    ELSE [err |-> "ValueError: no supported scaling-algorithm selected", value |-> "None"]

\* A define_model whose else-branch falls back to a default classifier
define_model_default(name) ==
    IF name \in {"NuSVC", "KNeighborsClassifier", "RFClassifier"}
    THEN [err |-> "none", value |-> name]
    ELSE [err |-> "none", value |-> "RFClassifier"]

\* define_model(config): the classifier instance, or ValueError
define_model(name) ==
    IF name = "NuSVC" THEN [err |-> "none", value |-> "NuSVC"]
    ELSE IF name = "KNeighborsClassifier" THEN [err |-> "none", value |-> "KNeighborsClassifier"]
    ELSE IF name = "RFClassifier" THEN [err |-> "none", value |-> "RandomForestClassifier"]
    ELSE [err |-> "ValueError: no supported ML model selected", value |-> "None"]

\* prepare_ML(config): define_scaling, then define_model; the first error ends
\* it.  calls lists the functions entered.
prepare_ML(scaler_name, model_name) ==
    LET s == define_scaling(scaler_name)
        m == define_model(model_name)
    IN  IF s.err # "none"
        THEN [err |-> s.err, scaler |-> "None", clf |-> "None",
              calls |-> <<"prepare_ML", "define_scaling">>]
        ELSE IF m.err # "none"
        THEN [err |-> m.err, scaler |-> "None", clf |-> "None",
              calls |-> <<"prepare_ML", "define_scaling", "define_model">>]
        ELSE [err |-> "none", scaler |-> s.value, clf |-> m.value,
              calls |-> <<"prepare_ML", "define_scaling", "define_model">>]

\* The input files selection.select reads to return the conflicts and the
\* polygons: the conflict file and the vector file of the polygons.
select_reads == <<"conflict", "vector">>

\* The input files create_XY reads: the conflict and variable files, or the
\* pre-computed npy-file when the configuration names one.
create_XY_reads(pre_calc) ==
    IF pre_calc = "" THEN <<"raster">> ELSE <<"precomputed">>

RunFrame == UNCHANGED <<cfg_scaler, cfg_model, n_runs, pre_calc_XY, createVars>>

RunOthers == UNCHANGED <<fillVars, splitVars, mlVars, evalVars, neighVars>>

\* config, out_dir = utils.initiate_setup(cfg)
InitiateSetup ==
    /\ run_pc = "start"
    /\ calls' = Append(calls, "initiate_setup")
    /\ run_pc' = "setup"
    /\ UNCHANGED <<files_read, scaler, clf, run_n, fitted_in, run_err>>
    /\ RunFrame /\ RunOthers

\* conflict_gdf, extent_gdf, ... = selection.select(config, out_dir)
Select ==
    /\ run_pc = "setup"
    /\ calls' = Append(calls, "select")
    /\ files_read' = files_read \o select_reads
    /\ run_pc' = "selected"
    /\ UNCHANGED <<scaler, clf, run_n, fitted_in, run_err>>
    /\ RunFrame /\ RunOthers

\* plots.plot_active_polys(...)
PlotActivePolys ==
    /\ run_pc = "selected"
    /\ calls' = Append(calls, "plot_active_polys")
    /\ run_pc' = "plotted"
    /\ UNCHANGED <<files_read, scaler, clf, run_n, fitted_in, run_err>>
    /\ RunFrame /\ RunOthers

\* X, Y = pipeline.create_XY(...)
CreateXY ==
    /\ run_pc = "plotted"
    /\ calls' = Append(calls, "create_XY")
    /\ files_read' = files_read \o create_XY_reads(pre_calc_XY)
    /\ run_pc' = "XY"
    /\ UNCHANGED <<scaler, clf, run_n, fitted_in, run_err>>
    /\ RunFrame /\ RunOthers

\* scaler, clf = pipeline.prepare_ML(config)
PrepareML ==
    /\ run_pc = "XY"
    /\ LET r == prepare_ML(cfg_scaler, cfg_model)
       IN  /\ calls' = calls \o r.calls
           /\ scaler' = r.scaler
           /\ clf' = r.clf
           /\ run_err' = r.err
           /\ run_pc' = IF r.err = "none" THEN "prepared" ELSE "failed"
    /\ UNCHANGED <<files_read, run_n, fitted_in>>
    /\ RunFrame /\ RunOthers

\* The instances that pipeline.run fits, of those it is given:
\* split_scale_train_test_split calls scaler.fit_transform on the scaler it
\* is given and fit_predict calls clf.fit on the classifier it is given.
run_fits == {"scaler", "clf"}

\* One iteration of the loop over range(n_runs): pipeline.run(X, Y, config,
\* scaler, clf, out_dir), given main's scaler and clf, and the filling of the
\* outputs.
RunOnce ==
    /\ run_pc = "prepared"
    /\ run_n < n_runs
    /\ run_n' = run_n + 1
    /\ fitted_in' = [i \in DOMAIN fitted_in |->
                        IF i \in run_fits THEN fitted_in[i] \cup {run_n + 1}
                        ELSE fitted_in[i]]
    /\ calls' = Append(calls, "run")
    /\ UNCHANGED <<files_read, scaler, clf, run_pc, run_err>>
    /\ RunFrame /\ RunOthers

\* After the loop: the plots, the saved outputs, the per-polygon accuracy.
Finish ==
    /\ run_pc = "prepared"
    /\ run_n = n_runs
    /\ calls' = Append(calls, "polygon_model_accuracy")
    /\ run_pc' = "done"
    /\ UNCHANGED <<files_read, scaler, clf, run_n, fitted_in, run_err>>
    /\ RunFrame /\ RunOthers

InitRun ==
    /\ cfg_scaler \in ScalerNames
    /\ cfg_model \in ModelNames
    /\ n_runs \in 0..MaxRuns
    /\ pre_calc_XY \in {"", "XY.npy"}
    /\ files_read = <<>>
    /\ calls = <<>>
    /\ scaler = "None"
    /\ clf = "None"
    /\ run_n = 0
    /\ fitted_in = [scaler |-> {}, clf |-> {}]
    /\ run_pc = "start"
    /\ run_err = "none"
    /\ IdleCreate
    /\ IdleFill /\ IdleSplit /\ IdleML /\ IdleEval /\ IdleNeigh

NextRun ==
    \/ InitiateSetup
    \/ Select
    \/ PlotActivePolys
    \/ CreateXY
    \/ PrepareML
    \/ RunOnce
    \/ Finish

SpecRun == InitRun /\ [][NextRun]_vars

---------------------------------------------------------------------------
(* copro/pipeline.py: create_XY, create_X                                  *)

\* The values the configuration gives 'pre_calc'/'XY' and 'pre_calc'/'X'.
PreCalcXY == {"", "XY.npy"}
PreCalcX == {"", "X.npy"}

\* config.get('pre_calc', 'XY') is '': an identity test, true of the empty
\* string alone (CPython keeps one object for the empty string).
is_empty(value) == value = ""

\* data.fill_XY(XY, config, root_dir, conflict_gdf, polygon_gdf), as both
\* functions call it: five positional arguments for a function whose sixth
\* parameter, out_dir, has no default.  The call raises TypeError before the
\* body of fill_XY is entered.
fill_XY_call ==
    [err |-> "TypeError: fill_XY() missing 1 required positional argument: 'out_dir'",
     matrix |-> <<>>]

\* np.save before the call of fill_XY
save_then_assemble(name) ==
    LET r == fill_XY_call
    IN  [err |-> r.err, saved |-> {name}, matrix |-> r.matrix]

\* The branch of create_XY and create_X that assembles: fill_XY, then
\* np.save(os.path.join(out_dir, name), ...) if the call returned.
assemble_and_save(name) ==
    LET r == fill_XY_call
    IN  IF r.err # "none"
        THEN [err |-> r.err, saved |-> {}, matrix |-> <<>>]
        ELSE [err |-> "none", saved |-> {name}, matrix |-> r.matrix]

\* np.load(os.path.join(root_dir, name), allow_pickle=True): the empty name
\* gives the directory root_dir itself.
np_load(name) ==
    IF name = "" THEN [err |-> "IsADirectoryError", matrix |-> <<>>]
    ELSE IF name \notin disk_files THEN [err |-> "FileNotFoundError", matrix |-> <<>>]
    ELSE [err |-> "none", matrix |-> disk_matrix]

\* X, Y = data.split_XY_data(XY, config)
split_XY_data(m) ==
    LET kept == dropna(m)
    IN  IF verbose /\ Len(kept) = 0
        THEN [err |-> "ZeroDivisionError", X |-> <<>>, Y |-> <<>>]
        ELSE [err |-> "none", X |-> AllButLast(kept), Y |-> LastAsInt(kept)]

CreateFrame ==
    /\ UNCHANGED <<cr_fn, cfg_pre_XY, cfg_pre_X, disk_files, disk_matrix>>
    /\ UNCHANGED <<cfg_scaler, cfg_model, n_runs, pre_calc_XY, files_read, calls,
                   scaler, clf, run_n, fitted_in, run_pc, run_err>>
    /\ UNCHANGED <<fillVars, splitVars, mlVars, evalVars, neighVars>>

\* create_XY(config, out_dir, root_dir, polygon_gdf, conflict_gdf)
create_XY ==
    /\ cr_pc = "start"
    /\ cr_fn = "create_XY"
    /\ LET assemble == is_empty(cfg_pre_XY)
           a == assemble_and_save("XY.npy")
           l == np_load(cfg_pre_XY)
           got == IF assemble THEN a ELSE l
           s == split_XY_data(got.matrix)
       IN  /\ cr_branch' = IF assemble THEN "assemble" ELSE "load"
           /\ saved' = IF assemble THEN saved \cup a.saved ELSE saved
           /\ loaded' = IF assemble THEN loaded ELSE cfg_pre_XY
           /\ IF got.err # "none"
              THEN /\ cr_err' = got.err
                   /\ cr_pc' = "raised"
                   /\ UNCHANGED <<cr_X, cr_Y>>
              ELSE IF s.err # "none"
              THEN /\ cr_err' = s.err
                   /\ cr_pc' = "raised"
                   /\ UNCHANGED <<cr_X, cr_Y>>
              ELSE /\ cr_X' = s.X
                   /\ cr_Y' = s.Y
                   /\ cr_pc' = "returned"
                   /\ UNCHANGED cr_err
    /\ CreateFrame

\* create_X(config, out_dir, root_dir, polygon_gdf, conflict_gdf=None): the
\* branch is chosen by 'pre_calc'/'XY', the file loaded is 'pre_calc'/'X'.
create_X ==
    /\ cr_pc = "start"
    /\ cr_fn = "create_X"
    /\ LET assemble == is_empty(cfg_pre_XY)
           a == assemble_and_save("X.npy")
           l == np_load(cfg_pre_X)
           got == IF assemble THEN a ELSE l
       IN  /\ cr_branch' = IF assemble THEN "assemble" ELSE "load"
           /\ saved' = IF assemble THEN saved \cup a.saved ELSE saved
           /\ loaded' = IF assemble THEN loaded ELSE cfg_pre_X
           /\ IF got.err # "none"
              THEN /\ cr_err' = got.err
                   /\ cr_pc' = "raised"
                   /\ UNCHANGED cr_X
              ELSE /\ cr_X' = got.matrix
                   /\ cr_pc' = "returned"
                   /\ UNCHANGED cr_err
    /\ UNCHANGED cr_Y
    /\ CreateFrame

InitCreate ==
    /\ IdleFill
    /\ cr_fn \in {"create_XY", "create_X"}
    /\ cfg_pre_XY \in PreCalcXY
    /\ cfg_pre_X \in PreCalcX
    /\ disk_files \in SUBSET {"XY.npy", "X.npy"}
    /\ disk_matrix \in StoredMatrices
    /\ saved = {}
    /\ loaded = "none"
    /\ cr_branch = "none"
    /\ cr_X = <<>>
    /\ cr_Y = <<>>
    /\ cr_pc = "start"
    /\ cr_err = "none"
    /\ verbose \in BOOLEAN
    /\ XY_in = <<>>
    /\ X = <<>>
    /\ Y = <<>>
    /\ sxy_pc = "idle"
    /\ sxy_err = "none"
    /\ IdleML /\ IdleEval /\ IdleNeigh /\ IdleMain

NextCreate ==
    \/ create_XY
    \/ create_X

SpecCreate == InitCreate /\ [][NextCreate]_vars

---------------------------------------------------------------------------
(* Properties of the assembly and of split_XY_data.                        *)

SupportedTimes == \A i \in 1..Len(cfg_data) : time_dtype[i] # "int64"

\* C1: in reference mode, after the step of fill_XY_ref for the year
\* y_start + (sim_i - 1) every column of the store has length
\* (sim_i - 1) * n_poly (the first year appends nothing, every later year
\* appends n_poly values to every column), the assembly does not fail, and the
\* matrix fill_XY returns has (y_end - y_start) * n_poly rows.  Stated for
\* variables whose time axis has a supported dtype and collaborators that
\* return one value per polygon.
C1_RefGrowth ==
    (/\ proj = FALSE
     /\ fill_pc \in {"ref", "raised", "returned"}
     /\ sim_i >= 1
     /\ odd_key = "none"
     /\ SupportedTimes)
    => /\ fill_pc # "raised"
       /\ \A k \in 1..Len(XY) : Len(XY[k][2]) = (sim_i - 1) * n_poly
       /\ fill_pc = "returned" => Len(matrix) = (y_end - y_start) * n_poly

Complete(row) == \A c \in 1..Len(row) : row[c] # "NaN"

\* C2: split_XY_data returns X and Y of the same length, holding exactly the
\* rows of its input that have no missing cell, in their original order (X the
\* cells before the last, Y the last cell as an integer), and no returned row
\* holds a missing cell.
C2_DropMissing ==
    sxy_pc = "returned" =>
        /\ Len(X) = Len(Y)
        /\ \E f \in [1..Len(X) -> 1..Len(XY_in)] :
              /\ \A a, b \in 1..Len(X) : a < b => f[a] < f[b]
              /\ {f[a] : a \in 1..Len(X)} = {i \in 1..Len(XY_in) : Complete(XY_in[i])}
              /\ \A a \in 1..Len(X) :
                    LET row == XY_in[f[a]]
                    IN  /\ X[a] = [c \in 1..(Len(row) - 1) |-> row[c]]
                        /\ Y[a] = IF row[Len(row)] = "True" THEN 1 ELSE 0
        /\ \A a \in 1..Len(X) : Complete(X[a])

\* C2 witness: split_XY_data returned after dropping one row and keeping
\* another.
C2_Witness ==
    /\ sxy_pc = "returned"
    /\ Len(XY_in) >= 2
    /\ Len(X) >= 1
    /\ Len(X) < Len(XY_in)

\* The place of the label among the columns of a row.
LabelColumn == CHOOSE c \in 1..Len(Columns) : Columns[c] = "conflict"

\* C3: for every list of variables in the 'data' section the columns of the
\* reference store are poly_ID, poly_geometry, the variables, conflict_t_min_1,
\* conflict_t_min_1_nb, conflict, in this order, so the Y that split_XY_data
\* returns is the label of each kept row.
C3_LabelLast ==
    (sxy_pc = "returned" /\ Len(Y) >= 1) =>
        /\ Columns = <<"poly_ID", "poly_geometry">> \o cfg_data
                       \o <<"conflict_t_min_1", "conflict_t_min_1_nb", "conflict">>
        /\ LET kept == SelectSeq(XY_in, Complete)
           IN  \A a \in 1..Len(Y) :
                   Y[a] = IF kept[a][LabelColumn] = "True" THEN 1 ELSE 0

---------------------------------------------------------------------------
(* Properties of split_scale_train_test_split.                             *)

\* The scaled values of input row j under what the scaler learned.
ScaledRow(j) ==
    [c \in 1..(Len(X[j]) - 2) |->
        ((X[j][c + 2] - scaler_fit[c].data_min) * 1000)
            \div (IF scaler_fit[c].data_max = scaler_fit[c].data_min
                  THEN 1 ELSE scaler_fit[c].data_max - scaler_fit[c].data_min)]

\* A partition whose k-th identifier, geometry, feature row and label all come
\* from the input row indices[k].
Aligned(ids, geoms, rows, labels, indices) ==
    /\ Len(ids) = Len(indices)
    /\ Len(geoms) = Len(indices)
    /\ Len(rows) = Len(indices)
    /\ Len(labels) = Len(indices)
    /\ \A k \in 1..Len(indices) :
          /\ ids[k] = X[indices[k]][1]
          /\ geoms[k] = X[indices[k]][2]
          /\ rows[k] = ScaledRow(indices[k])
          /\ labels[k] = Y[indices[k]]

\* C4: in the train and in the test partition split_scale_train_test_split
\* returns, the identifiers, geometries, feature rows and labels have the same
\* length and the k-th of each comes from the same row of the input (X, Y).
C4_SplitAligned ==
    ml_pc = "returned" =>
        /\ Aligned(X_train_ID, X_train_geom, X_train, y_train, ind_train)
        /\ Aligned(X_test_ID, X_test_geom, X_test, y_test, ind_test)

\* C4 witness: a returned split with two train rows that differ in identifier
\* and in label, and a test row.
C4_Witness ==
    /\ ml_pc = "returned"
    /\ Len(X_train) = 2
    /\ Len(X_test) = 1
    /\ X_train_ID[1] # X_train_ID[2]
    /\ y_train[1] # y_train[2]

\* C5: the train and the test partition of a returned split partition the
\* input rows: no row is in both, every row is in exactly one of them.
C5_Partition ==
    ml_pc = "returned" =>
        /\ \A a \in 1..Len(ind_train) : \A b \in 1..Len(ind_test) :
              ind_train[a] # ind_test[b]
        /\ \A j \in 1..Len(X) :
              Cardinality({a \in 1..Len(ind_train) : ind_train[a] = j})
              + Cardinality({b \in 1..Len(ind_test) : ind_test[b] = j}) = 1
        /\ Len(X_train) + Len(X_test) = Len(X)
        /\ Len(y_train) + Len(y_test) = Len(Y)

\* C5 witness: a returned split of three rows, one in the train and two in the
\* test partition.
C5_Witness ==
    /\ ml_pc = "returned"
    /\ Len(X) = 3
    /\ Len(ind_train) = 1
    /\ Len(ind_test) = 2

\* C8: scaling changes no identifier and no geometry: those that leave the
\* function are the ones of the same input row; the scaler was fitted on the
\* variable columns alone (one fitted column per variable column, with the
\* variables' own extremes), and no label was scaled.
C8_ScalingFrame ==
    ml_pc = "returned" =>
        /\ \A k \in 1..Len(ind_train) :
              /\ X_train_ID[k] = X[ind_train[k]][1]
              /\ X_train_geom[k] = X[ind_train[k]][2]
              /\ y_train[k] = Y[ind_train[k]]
        /\ \A k \in 1..Len(ind_test) :
              /\ X_test_ID[k] = X[ind_test[k]][1]
              /\ X_test_geom[k] = X[ind_test[k]][2]
              /\ y_test[k] = Y[ind_test[k]]
        /\ Len(scaler_fit) = Len(X[1]) - 2
        /\ \A c \in 1..Len(scaler_fit) :
              /\ \E j \in 1..Len(X) : scaler_fit[c].data_min = X[j][c + 2]
              /\ \E j \in 1..Len(X) : scaler_fit[c].data_max = X[j][c + 2]
              /\ \A j \in 1..Len(X) : /\ scaler_fit[c].data_min <= X[j][c + 2]
                                       /\ X[j][c + 2] <= scaler_fit[c].data_max

\* C8 witness: a returned split in which scaling changed a variable value.
C8_Witness ==
    /\ ml_pc = "returned"
    /\ \E k \in 1..Len(ind_train) : X_train[k][1] # X[ind_train[k]][3]
    /\ \E k \in 1..Len(ind_test) : X_test[k][1] # X[ind_test[k]][3]

---------------------------------------------------------------------------
(* Properties of get_average_hit.                                          *)

\* The rows of df for an identifier, and those of them that are hits.
RowsOf(id) == {k \in 1..Len(df) : df[k][1] = id}
HitsOf(id) == {k \in 1..Len(df) : df[k][1] = id /\ df[k][2] = 1}

\* C6: get_average_hit reports, for every identifier with a test row, the
\* share of its rows that are hits (hits / rows), and reports nothing for an
\* identifier without a test row; one hit in two rows gives 1/2.
C6_AverageHit ==
    ev_pc = "returned" =>
        /\ \A id \in EvalIDs :
              (RowsOf(id) # {}) <=> (\E i \in 1..Len(df_hit) : df_hit[i].ID = id)
        /\ \A i \in 1..Len(df_hit) :
              LET rows == Cardinality(RowsOf(df_hit[i].ID))
                  hits == Cardinality(HitsOf(df_hit[i].ID))
              IN  /\ df_hit[i].average_hit[2] > 0
                  /\ df_hit[i].average_hit[1] * rows = hits * df_hit[i].average_hit[2]
                  /\ (rows = 2 /\ hits = 1) => df_hit[i].average_hit = <<1, 2>>

\* C6 witness: P1 has a hit and a miss, P2 has no test row but is a polygon
\* of global_df, and the result is back.
C6_Witness ==
    /\ ev_pc = "returned"
    /\ df = <<<<"P1", 1>>, <<"P1", 0>>>>
    /\ \E g \in 1..Len(global_df) : global_df[g][1] = "P2"
    /\ Len(df_hit) = 1
    /\ df_hit[1].average_hit = <<1, 2>>

---------------------------------------------------------------------------
(* Properties of neighboring_polys and find_neighbors.                     *)

\* The identifiers of the polygons whose interval shares an end point with
\* the interval of the polygon id.
TouchingIDs(id) ==
    LET a == CHOOSE i \in 1..Len(extent_gdf) : extent_gdf[i].watprovID = id
    IN  {extent_gdf[j].watprovID : j \in
            {j \in 1..Len(extent_gdf) :
                \/ extent_gdf[j].geometry[2] = extent_gdf[a].geometry[1]
                \/ extent_gdf[a].geometry[2] = extent_gdf[j].geometry[1]}}

Found(id) == {actual_neighbours[id][k] : k \in 1..Len(actual_neighbours[id])}

\* C7: find_neighbors returns for a polygon of the collection exactly the
\* identifiers of the polygons whose geometry touches its geometry (none, and
\* no error, when there is none); being a neighbour is symmetric; three
\* polygons in a row give neighbours P2 for P1, P1 and P3 for P2, P2 for P3.
C7_Neighbours ==
    /\ \A a \in DOMAIN actual_neighbours :
          /\ Found(a) = TouchingIDs(a)
          /\ Len(actual_neighbours[a]) = Cardinality(Found(a))
    /\ \A a, b \in DOMAIN actual_neighbours : (a \in Found(b)) <=> (b \in Found(a))
    /\ (/\ Len(extent_gdf) = 3
        /\ extent_gdf[1].geometry[2] = extent_gdf[2].geometry[1]
        /\ extent_gdf[2].geometry[2] = extent_gdf[3].geometry[1]
        /\ DOMAIN actual_neighbours = {"P1", "P2", "P3"})
       => /\ Found("P1") = {"P2"}
          /\ Found("P2") = {"P1", "P3"}
          /\ Found("P3") = {"P2"}

\* C7 witness: three polygons in a row, all three asked for their neighbours.
C7_Witness ==
    /\ Len(extent_gdf) = 3
    /\ extent_gdf[1].geometry = <<0, 1>>
    /\ extent_gdf[2].geometry = <<1, 2>>
    /\ extent_gdf[3].geometry = <<2, 3>>
    /\ DOMAIN actual_neighbours = {"P1", "P2", "P3"}
    /\ Found("P2") = {"P1", "P3"}

---------------------------------------------------------------------------
(* Properties of the command-line run.                                     *)

SupportedScalers == {"MinMaxScaler", "StandardScaler", "RobustScaler", "QuantileTransformer"}
SupportedModels == {"NuSVC", "KNeighborsClassifier", "RFClassifier"}

ScalerError == run_pc = "failed" /\ run_err = "ValueError: no supported scaling-algorithm selected"
ModelError == run_pc = "failed" /\ run_err = "ValueError: no supported ML model selected"

InputFiles == {"raster", "vector", "precomputed"}

\* C9: when define_scaling raises for an unsupported scaler, no input file
\* (raster, vector, pre-computed matrix) has been read before: no file read
\* precedes the error in the steps of the command-line run.
C9_NoReadBeforeError ==
    ScalerError => \A k \in 1..Len(files_read) : files_read[k] \notin InputFiles

\* C10: with a scaler or a classifier outside the supported set prepare_ML
\* raises, and no iteration of the n_runs loop starts, whatever n_runs is.
C10_NoRunOnBadConfig ==
    (cfg_scaler \notin SupportedScalers \/ cfg_model \notin SupportedModels) =>
        /\ run_n = 0
        /\ \A k \in 1..Len(calls) : calls[k] # "run"
        /\ run_pc \notin {"prepared", "done"}
        /\ (\E k \in 1..Len(calls) : calls[k] = "prepare_ML") => (ScalerError \/ ModelError)

\* C10 witness: a supported scaler with an unsupported classifier and
\* n_runs > 0: the run has failed in define_model.
C10_Witness ==
    /\ ModelError
    /\ cfg_scaler \in SupportedScalers
    /\ cfg_model = "RandomForestClassifier"
    /\ n_runs = MaxRuns
    /\ run_n = 0

---------------------------------------------------------------------------
(* Properties of the assembly: time encodings, column lengths, projection. *)

\* The first configured variable whose time axis is neither a float nor a
\* datetime64[ns] timestamp (0 if there is none).
FirstUnsupported ==
    IF \E i \in 1..Len(cfg_data) : time_dtype[i] = "int64"
    THEN CHOOSE i \in 1..Len(cfg_data) :
            /\ time_dtype[i] = "int64"
            /\ \A j \in 1..(i - 1) : time_dtype[j] # "int64"
    ELSE 0

\* The assembly has gone through its first step that reads the variables: the
\* second year of the reference loop, or the projection year.
VariablesRead ==
    \/ proj = FALSE /\ fill_pc \in {"ref", "raised", "returned"} /\ sim_i >= 2
    \/ proj = TRUE /\ proj_year # 0 /\ fill_pc \in {"filled", "raised", "returned"}

\* C11: when a configured variable's time axis has an unsupported dtype, the
\* assembly (reference and projection mode) has stopped, once it has come to
\* read the variables, with an error whose message names that variable, and
\* nothing was appended to the variable's column.  Stated for variables not
\* named like the label column.
C11_UnsupportedTime ==
    (/\ FirstUnsupported # 0
     /\ \A i \in 1..Len(cfg_data) : cfg_data[i] # "conflict"
     /\ VariablesRead)
    => /\ fill_pc = "raised"
       /\ fill_err = "Warning: unsupported dtype of the time variable of "
                        \o cfg_data[FirstUnsupported]
       /\ DictGet(XY, cfg_data[FirstUnsupported]) = <<>>

\* The columns of the store have one length.
EqualColumns == \A i, j \in 1..Len(XY) : Len(XY[i][2]) = Len(XY[j][2])

\* C12: fill_XY never returns a matrix built from columns of unequal length:
\* when a column of the store is shorter or longer than another after a step
\* (a collaborator returned fewer or more values than there are polygons), the
\* call has failed and no matrix is returned.
C12_NoRaggedMatrix ==
    fill_pc = "returned" =>
        /\ EqualColumns
        /\ \A r \in 1..Len(matrix) : \A c \in 1..Len(matrix[r]) : matrix[r][c] # NaN

---------------------------------------------------------------------------
(* Properties of the sizes of the split.                                   *)

\* C13: with train_fraction = 0.7 and 100 rows the test part has exactly 30
\* rows and the train part exactly 70.
C13_SeventyThirty ==
    (size_pc = "returned" /\ train_fraction = 7 /\ n_samples = 100)
        => size_test = 30 /\ size_train = 70

\* The store fill_XY was given is the one initiate_X_data makes.
XStore == Keys(XY) = Keys(initiate_X_data(cfg_data))

---------------------------------------------------------------------------
(* Properties of the runs' fitted state.                                   *)

\* C15: every run has a scaler-fit state and a classifier-fit state of its
\* own: no scaler or classifier instance is fitted in more than one run.
C15_OwnFitState ==
    \A i \in DOMAIN fitted_in : Cardinality(fitted_in[i]) <= 1

---------------------------------------------------------------------------
(* Properties of the splitter's assertions.                                *)

\* C16: whenever the identifiers or the geometries of a partition, train or
\* test, differ in length from the partition's feature rows, the splitter
\* raises AssertionError and returns nothing: a returned train and a returned
\* test partition have as many identifiers and geometries as feature rows.
C16_AssertionOnMismatch ==
    ml_pc = "returned" =>
        /\ Len(X_train_ID) = Len(X_train)
        /\ Len(X_train_geom) = Len(X_train)
        /\ Len(X_test_ID) = Len(X_test)
        /\ Len(X_test_geom) = Len(X_test)

---------------------------------------------------------------------------
(* Properties of create_XY and create_X.                                   *)

C18_LoadBySameEntry ==
    (cr_fn = "create_X" /\ cr_pc \in {"raised", "returned"}) =>
        /\ (cr_branch = "load") <=> (cfg_pre_X # "")
        /\ cr_branch = "load" => loaded = cfg_pre_X
        /\ (cr_branch = "load" /\ cfg_pre_X \in disk_files) =>
              (cr_pc = "returned" /\ cr_X = disk_matrix)
        /\ (cr_branch = "assemble" /\ cr_pc = "returned") => saved = {"X.npy"}

====
